---- MODULE Spec2Model ----
(***************************************************************************)
(* Project membership and role authorization of the GameDev project        *)
(* manager: the REST handlers that create, assign, remove and delete       *)
(* users, projects, project assignments and documents, over the storage    *)
(* backends of the repository.                                             *)
(*                                                                         *)
(* The repository holds two revisions of the route handlers and three      *)
(* storage backends.  They pair up by the storage interface they use:      *)
(*   "MongoDBStorage" : server/routes.ts -> server/storage.ts ->           *)
(*                      class MongoDBStorage (getUser, getProject,         *)
(*                      positional assignUserToProject), with the unique   *)
(*                      index of shared/schema.ts:307;                     *)
(*   "mongoStorage"   : the later routes revision (getUserById,            *)
(*                      getProjectById, assignUserToProject(data)) ->      *)
(*                      object mongoStorage, with the schema of            *)
(*                      shared/mongoose-schema.ts (no unique index);       *)
(*   "MemoryStorage"  : the later routes revision -> class MemoryStorage   *)
(*                      of check-db.js (same interface as mongoStorage).   *)
(* storageImpl is chosen at start-up and never changes.                    *)
(*                                                                         *)
(* Abstractions: a project assignment is kept as the number of stored      *)
(* assignment documents per (projectId, userId); its id, assignedBy and    *)
(* timestamps are read by no decision of the handlers.  Documents are kept *)
(* as a count per projectId.  A populated reference's toString() is taken  *)
(* to be the id string, as the handlers intend.                            *)
(***************************************************************************)
EXTENDS Integers, FiniteSets, TLC

MaxUsers == 2
MaxProjects == 1
MaxDuplicates == 2
MaxDocuments == 1
MaxRequests == 2
MaxSessions == 2

UserIds == 1..MaxUsers
ProjectIds == 1..MaxProjects
SessionIds == 1..MaxSessions

Roles == {"admin", "project_lead", "developer"}
StorageImpls == {"MongoDBStorage", "mongoStorage", "MemoryStorage"}

\* a request body field that is null / absent
Null == 0
Undefined == -1

VARIABLES
    storageImpl,        \* which backend (and routes revision) is deployed
    users,              \* id -> [role]
    lastUserId,         \* ids are never reused
    projects,           \* id -> [createdBy, projectLeadId]
    lastProjectId,
    projectAssignments, \* <<projectId, userId>> -> number of assignment documents
    documents,          \* projectId -> number of documents
    session,            \* session id -> the userId the session holds, or Null
    last,               \* the last request and its response
    inflight            \* ASSIGN requests suspended at an await (concurrent runs)

vars == <<storageImpl, users, lastUserId, projects, lastProjectId,
          projectAssignments, documents, session, last, inflight>>

store == <<users, lastUserId, projects, lastProjectId, projectAssignments, documents>>

----------------------------------------------------------------------------
(* Route revisions *)

RoutesRev == IF storageImpl = "MongoDBStorage" THEN "routes.ts" ELSE "routes-rev2"

----------------------------------------------------------------------------
(* Passwords: a password is a text of some length; bcrypt.hash wraps it in  *)
(* one more round of hashing and bcrypt.compare(plain, hash) holds exactly  *)
(* when hash is plain hashed once.                                          *)

Plain(text, length) == [text |-> text, length |-> length, rounds |-> 0]

\* the password a user is created with, a new one and one that is too short
TemporaryPassword == Plain("temporary", 9)
Passwords == {TemporaryPassword, Plain("renewed", 7), Plain("short", 5)}

bcryptHash(value) == [value EXCEPT !.rounds = @ + 1]

\* a comparison that accepts every password
bcryptCompareAny(password, passwordHash) == TRUE

bcryptCompare(password, passwordHash) == passwordHash = bcryptHash(password)

----------------------------------------------------------------------------
(* Middleware *)

\* isAuthenticated: the session's user is looked up in the store on every request
isAuthenticated(actor) == actor \in DOMAIN users

\* req.user.role, set by isAuthenticated
roleOfActor(actor) == users[actor].role

requireRole(roles, actor) == users[actor].role \in roles

\* an admin gate that lets every role through
requireAdminAnyRole(actor) == requireRole(Roles, actor)

requireAdmin(actor) == requireRole({"admin"}, actor)

\* a role gate that lets every role through
requireProjectLeadAnyRole(actor) == requireRole(Roles, actor)

requireProjectLead(actor) == requireRole({"admin", "project_lead"}, actor)

----------------------------------------------------------------------------
(* JavaScript values as the handlers compare them: === between a string id *)
(* and an object (a populated { id, firstName, ... }) or null is false.    *)

JsString(id) == [type |-> "string", id |-> id]
JsObject(id) == [type |-> "object", id |-> id]
JsNull == [type |-> "null", id |-> Null]

StrictEquals(value, id) == value.type = "string" /\ value.id = id

----------------------------------------------------------------------------
(* Storage backends *)

membersOf(projectId) == {u \in UserIds : projectAssignments[<<projectId, u>>] > 0}

\* an assignment document of the project whose user no longer exists:
\* populate('userId') yields null for it
hasOrphanAssignment(projectId) == \E u \in membersOf(projectId) : u \notin DOMAIN users

\* getProject / getProjectById reject (TypeError on a null populated reference)
getProjectThrows(projectId) ==
    CASE storageImpl = "MongoDBStorage" -> hasOrphanAssignment(projectId)
      [] storageImpl = "mongoStorage" ->
            \/ projects[projectId].createdBy \notin DOMAIN users
            \/ hasOrphanAssignment(projectId)
      [] storageImpl = "MemoryStorage" -> FALSE

\* the projectLeadId field of the returned project
viewProjectLeadId(projectId) ==
    LET lead == projects[projectId].projectLeadId IN
    IF storageImpl = "MemoryStorage"
    THEN (IF lead = Null THEN JsNull ELSE JsString(lead))
    ELSE (IF lead # Null /\ lead \in DOMAIN users THEN JsString(lead) ELSE JsNull)

\* the createdBy field of the returned project: an object, or null
viewCreatedBy(projectId) ==
    LET creator == projects[projectId].createdBy IN
    IF creator \in DOMAIN users THEN JsObject(creator) ELSE JsNull

getProject(projectId) ==
    IF projectId \notin DOMAIN projects THEN [kind |-> "null"]
    ELSE IF getProjectThrows(projectId) THEN [kind |-> "throws"]
    ELSE [kind |-> "ok",
          projectLeadId |-> viewProjectLeadId(projectId),
          createdBy |-> viewCreatedBy(projectId),
          assignments |-> membersOf(projectId)]

\* assignUserToProject throws 'User is already assigned to this project'
assignUserToProjectThrows(projectId, userId) ==
    /\ storageImpl = "MongoDBStorage"
    /\ projectAssignments[<<projectId, userId>>] > 0

assignUserToProject(projectId, userId) ==
    [projectAssignments EXCEPT ![<<projectId, userId>>] = @ + 1]

\* findOneAndDelete / find-then-delete: one matching document goes
removeUserFromProjectIn(assignments, projectId, userId) ==
    [assignments EXCEPT ![<<projectId, userId>>] = IF @ > 0 THEN @ - 1 ELSE 0]

removeUserFromProject(projectId, userId) ==
    removeUserFromProjectIn(projectAssignments, projectId, userId)

----------------------------------------------------------------------------
(* Responses *)

Reply(op, actor, projectId, userId, status, message) ==
    last' = [op |-> op, actor |-> actor, projectId |-> projectId, userId |-> userId,
             status |-> status, message |-> message]

R(status, message) == [status |-> status, message |-> message]

Proceed == R(0, "")

----------------------------------------------------------------------------
(* POST /api/projects/:id/assign *)

\* server/routes.ts: only a project_lead actor has the project looked up
assignChecksRoutes(actor, projectId, userId) ==
    IF users[actor].role = "project_lead"
    THEN LET project == getProject(projectId) IN
         IF project.kind = "throws" THEN R(500, "Failed to assign user to project")
         ELSE IF project.kind = "null" THEN R(404, "Project not found")
         ELSE IF /\ ~StrictEquals(project.projectLeadId, actor)
                 /\ ~StrictEquals(project.createdBy, actor)
              THEN R(403, "You can only assign users to projects you lead or created")
         ELSE IF users[userId].role # "developer"
              THEN R(403, "Project leads can only assign developers to projects")
         ELSE Proceed
    ELSE Proceed

\* the later revision: the project is looked up for every actor
assignChecksRev2(actor, projectId, userId) ==
    LET project == getProject(projectId) IN
    IF project.kind = "throws" THEN R(500, "Failed to assign user to project")
    ELSE IF project.kind = "null" THEN R(404, "Project not found")
    ELSE IF users[actor].role = "admin"
         THEN (IF users[userId].role # "project_lead"
               THEN R(403, "Admins can only assign project leads to projects")
               ELSE Proceed)
    ELSE IF users[actor].role = "project_lead"
         THEN LET isProjectLead == StrictEquals(project.projectLeadId, actor)
                  isProjectCreator == StrictEquals(project.createdBy, actor)
                  isAssignedToProject == actor \in project.assignments
              IN IF ~isProjectLead /\ ~isProjectCreator /\ ~isAssignedToProject
                 THEN R(403, "You can only assign users to projects you lead, created, or are assigned to")
                 ELSE IF users[userId].role # "developer"
                 THEN R(403, "Project leads can only assign developers to projects")
                 ELSE Proceed
    ELSE Proceed

assignChecks(actor, projectId, userId) ==
    IF ~isAuthenticated(actor) THEN R(401, "User not found")
    ELSE IF ~requireProjectLead(actor) THEN R(403, "Insufficient permissions")
    ELSE IF userId \notin DOMAIN users THEN R(404, "User not found")
    ELSE IF RoutesRev = "routes.ts" THEN assignChecksRoutes(actor, projectId, userId)
    ELSE assignChecksRev2(actor, projectId, userId)

\* the catch block: only the later revision maps the duplicate error to 400
assignCatch ==
    IF RoutesRev = "routes.ts" THEN R(500, "Failed to assign user to project")
    ELSE R(400, "User is already assigned to this project")

\* a handler that stores the assignment before it runs its checks
AssignInsertsFirst(actor, projectId, userId) ==
    LET check == assignChecks(actor, projectId, userId) IN
    /\ inflight = {}
    /\ projectAssignments[<<projectId, userId>>] < MaxDuplicates
    /\ projectAssignments' = assignUserToProject(projectId, userId)
    /\ IF check.status # 0
       THEN Reply("ASSIGN", actor, projectId, userId, check.status, check.message)
       ELSE Reply("ASSIGN", actor, projectId, userId, 201, "")
    /\ UNCHANGED <<session, storageImpl, users, lastUserId, projects, lastProjectId, documents, inflight>>

Assign(actor, projectId, userId) ==
    LET check == assignChecks(actor, projectId, userId) IN
    /\ inflight = {}
    /\ IF check.status # 0
       THEN /\ Reply("ASSIGN", actor, projectId, userId, check.status, check.message)
            /\ UNCHANGED projectAssignments
       ELSE IF assignUserToProjectThrows(projectId, userId)
       THEN /\ Reply("ASSIGN", actor, projectId, userId, assignCatch.status, assignCatch.message)
            /\ UNCHANGED projectAssignments
       ELSE /\ projectAssignments[<<projectId, userId>>] < MaxDuplicates
            /\ projectAssignments' = assignUserToProject(projectId, userId)
            /\ Reply("ASSIGN", actor, projectId, userId, 201, "")
    /\ UNCHANGED <<session, storageImpl, users, lastUserId, projects, lastProjectId, documents, inflight>>

----------------------------------------------------------------------------
(* DELETE /api/projects/:projectId/assign/:userId *)

\* a handler with a special-case block for an actor who removes themselves
RemoveBlocksSelfRemoval(actor, projectId, userId) ==
    /\ inflight = {}
    /\ IF ~isAuthenticated(actor)
       THEN /\ Reply("REMOVE", actor, projectId, userId, 401, "User not found")
            /\ UNCHANGED projectAssignments
       ELSE IF ~requireProjectLead(actor) \/ actor = userId
       THEN /\ Reply("REMOVE", actor, projectId, userId, 403, "Insufficient permissions")
            /\ UNCHANGED projectAssignments
       ELSE /\ projectAssignments' = removeUserFromProject(projectId, userId)
            /\ Reply("REMOVE", actor, projectId, userId, 204, "")
    /\ UNCHANGED <<session, storageImpl, users, lastUserId, projects, lastProjectId, documents, inflight>>

Remove(actor, projectId, userId) ==
    /\ inflight = {}
    /\ IF ~isAuthenticated(actor)
       THEN /\ Reply("REMOVE", actor, projectId, userId, 401, "User not found")
            /\ UNCHANGED projectAssignments
       ELSE IF ~requireProjectLead(actor)
       THEN /\ Reply("REMOVE", actor, projectId, userId, 403, "Insufficient permissions")
            /\ UNCHANGED projectAssignments
       ELSE /\ projectAssignments' = removeUserFromProject(projectId, userId)
            /\ Reply("REMOVE", actor, projectId, userId, 204, "")
    /\ UNCHANGED <<session, storageImpl, users, lastUserId, projects, lastProjectId, documents, inflight>>

----------------------------------------------------------------------------
(* Storage: projects and users *)

\* findByIdAndUpdate / Map.set on an existing project; nothing on a missing one
updateProject(projectId, projectLeadId) ==
    IF projectId \in DOMAIN projects /\ projectLeadId # Undefined
    THEN [projects EXCEPT ![projectId].projectLeadId = projectLeadId]
    ELSE projects

\* a request body that passes its createdBy field on to the storage
projectDataKeepsCreatedBy(body) == body

\* the fields of a project request body that reach the storage:
\* insertProjectSchema omits createdBy, and the later revision destructures
\* name, description, deadline, status and projectLeadId only
projectDataOf(body) == [f \in DOMAIN body \ {"createdBy"} |-> body[f]]

\* findByIdAndUpdate(id, updates) / {...project, ...updates}: every field
\* that updates carries is stored
updateProjectWith(projectId, projectData) ==
    IF projectId \in DOMAIN projects
    THEN [projects EXCEPT ![projectId] =
             [f \in DOMAIN @ |-> IF f \in DOMAIN projectData
                                THEN projectData[f]
                                ELSE @[f]]]
    ELSE projects

\* storage.updateProject of server/storage.ts rejects when the project read
\* after the update is missing or cannot be formatted
updateProjectThrows(projectId) ==
    /\ storageImpl = "MongoDBStorage"
    /\ getProject(projectId).kind # "ok"

withoutProject(projectId) == [p \in DOMAIN projects \ {projectId} |-> projects[p]]

withoutUser(userId) == [u \in DOMAIN users \ {userId} |-> users[u]]

\* deleteProject: which backends also delete the project's assignments and documents
deleteProjectCascades == storageImpl \in {"MongoDBStorage", "MemoryStorage"}

\* deleteUser: which backends also delete the user's assignments
deleteUserCascades == storageImpl = "MemoryStorage"

assignmentsWithoutProject(projectId) ==
    [k \in ProjectIds \X UserIds |-> IF k[1] = projectId THEN 0 ELSE projectAssignments[k]]

assignmentsWithoutUser(userId) ==
    [k \in ProjectIds \X UserIds |-> IF k[2] = userId THEN 0 ELSE projectAssignments[k]]

----------------------------------------------------------------------------
(* PATCH /api/projects/:id/assign-lead *)

\* the checks without the test of the new lead's role
assignLeadChecksAnyRole(actor, projectLeadId) ==
    IF ~isAuthenticated(actor) THEN R(401, "User not found")
    ELSE IF ~requireAdmin(actor) THEN R(403, "Insufficient permissions")
    ELSE IF projectLeadId = Null THEN R(400, "Project lead ID is required")
    ELSE IF projectLeadId \notin DOMAIN users THEN R(404, "Project lead not found")
    ELSE Proceed

assignLeadChecks(actor, projectLeadId) ==
    IF ~isAuthenticated(actor) THEN R(401, "User not found")
    ELSE IF ~requireAdmin(actor) THEN R(403, "Insufficient permissions")
    ELSE IF projectLeadId = Null THEN R(400, "Project lead ID is required")
    ELSE IF projectLeadId \notin DOMAIN users THEN R(404, "Project lead not found")
    ELSE IF users[projectLeadId].role # "project_lead" /\ users[projectLeadId].role # "admin"
         THEN R(400, "User must be a project lead or admin")
    ELSE Proceed

AssignLead(actor, projectId, projectLeadId) ==
    LET check == assignLeadChecks(actor, projectLeadId) IN
    /\ inflight = {}
    /\ IF check.status # 0
       THEN /\ Reply("ASSIGN_LEAD", actor, projectId, projectLeadId, check.status, check.message)
            /\ UNCHANGED projects
       ELSE /\ projects' = updateProject(projectId, projectLeadId)
            /\ IF updateProjectThrows(projectId)
               THEN Reply("ASSIGN_LEAD", actor, projectId, projectLeadId, 500, "Failed to assign project lead")
               ELSE Reply("ASSIGN_LEAD", actor, projectId, projectLeadId, 200, "")
    /\ UNCHANGED <<session, storageImpl, users, lastUserId, lastProjectId, projectAssignments, documents, inflight>>

----------------------------------------------------------------------------
(* POST /api/projects *)

\* a request body: the fields that are not undefined
definedFields(fields) ==
    [f \in {g \in DOMAIN fields : fields[g] # Undefined} |-> fields[f]]

\* { ...projectData, createdBy: userId }; a project stored without a status
\* is 'active' and one stored without a deadline has deadline null
createProjectData(body, userId) ==
    LET projectData == projectDataOf(body) IN
    [createdBy |-> userId,
     projectLeadId |-> IF "projectLeadId" \in DOMAIN projectData
                       THEN projectData.projectLeadId ELSE Null,
     status |-> IF "status" \in DOMAIN projectData
                THEN projectData.status ELSE "active",
     deadline |-> IF "deadline" \in DOMAIN projectData
                  THEN projectData.deadline ELSE Null]

CreateProject(actor, projectLeadId) ==
    \E createdBy \in UserIds \cup {Undefined} :
    LET body == definedFields([projectLeadId |-> projectLeadId, createdBy |-> createdBy]) IN
    /\ inflight = {}
    /\ IF ~isAuthenticated(actor)
       THEN /\ Reply("CREATE_PROJECT", actor, Null, projectLeadId, 401, "User not found")
            /\ UNCHANGED <<projects, lastProjectId>>
       ELSE IF ~requireProjectLead(actor)
       THEN /\ Reply("CREATE_PROJECT", actor, Null, projectLeadId, 403, "Insufficient permissions")
            /\ UNCHANGED <<projects, lastProjectId>>
       ELSE /\ lastProjectId < MaxProjects
            /\ lastProjectId' = lastProjectId + 1
            /\ projects' = [p \in DOMAIN projects \cup {lastProjectId + 1} |->
                              IF p = lastProjectId + 1
                              THEN createProjectData(body, actor)
                              ELSE projects[p]]
            /\ Reply("CREATE_PROJECT", actor, lastProjectId + 1, projectLeadId, 201, "")
    /\ UNCHANGED <<session, storageImpl, users, lastUserId, projectAssignments, documents, inflight>>

----------------------------------------------------------------------------
(* PATCH /api/projects/:id *)

\* the checks without the test of the lead's relation to the project
updateProjectChecksAnyLead(actor, projectId) ==
    IF ~isAuthenticated(actor) THEN R(401, "User not found")
    ELSE IF ~requireProjectLead(actor) THEN R(403, "Insufficient permissions")
    ELSE Proceed

\* project.projectLeadId !== userId && project.createdBy.id !== userId,
\* for a project_lead actor; .id of a null createdBy throws
updateProjectChecks(actor, projectId) ==
    IF ~isAuthenticated(actor) THEN R(401, "User not found")
    ELSE IF ~requireProjectLead(actor) THEN R(403, "Insufficient permissions")
    ELSE IF users[actor].role = "project_lead"
         THEN LET project == getProject(projectId) IN
              IF project.kind = "throws" THEN R(500, "Failed to update project")
              ELSE IF project.kind = "null" THEN R(404, "Project not found")
              ELSE IF StrictEquals(project.projectLeadId, actor) THEN Proceed
              ELSE IF project.createdBy.type = "null" THEN R(500, "Failed to update project")
              ELSE IF project.createdBy.id # actor
                   THEN R(403, "You can only update projects you lead or created")
              ELSE Proceed
    ELSE Proceed

\* the handler, for a request body
PatchProject(actor, projectId, body) ==
    LET check == updateProjectChecks(actor, projectId)
        projectLeadId == IF "projectLeadId" \in DOMAIN body
                         THEN body.projectLeadId ELSE Undefined
    IN
    /\ inflight = {}
    /\ IF check.status # 0
       THEN /\ Reply("UPDATE_PROJECT", actor, projectId, projectLeadId, check.status, check.message)
            /\ UNCHANGED projects
       ELSE /\ projects' = updateProjectWith(projectId, projectDataOf(body))
            /\ IF updateProjectThrows(projectId)
               THEN Reply("UPDATE_PROJECT", actor, projectId, projectLeadId, 500, "Failed to update project")
               ELSE Reply("UPDATE_PROJECT", actor, projectId, projectLeadId, 200, "")
    /\ UNCHANGED <<session, storageImpl, users, lastUserId, lastProjectId, projectAssignments, documents, inflight>>

\* a body that carries projectLeadId and possibly createdBy
UpdateProject(actor, projectId, projectLeadId) ==
    \E createdBy \in UserIds \cup {Undefined} :
        PatchProject(actor, projectId,
                     definedFields([projectLeadId |-> projectLeadId,
                                    createdBy |-> createdBy]))

\* a body that carries status and deadline
UpdateProjectDetails(actor, projectId, status, deadline) ==
    PatchProject(actor, projectId, [status |-> status, deadline |-> deadline])

----------------------------------------------------------------------------
(* DELETE /api/projects/:id *)

DeleteProject(actor, projectId) ==
    /\ inflight = {}
    /\ IF ~isAuthenticated(actor)
       THEN /\ Reply("DELETE_PROJECT", actor, projectId, Null, 401, "User not found")
            /\ UNCHANGED <<projects, projectAssignments, documents>>
       ELSE IF ~requireAdmin(actor)
       THEN /\ Reply("DELETE_PROJECT", actor, projectId, Null, 403, "Insufficient permissions")
            /\ UNCHANGED <<projects, projectAssignments, documents>>
       ELSE /\ projects' = withoutProject(projectId)
            /\ IF deleteProjectCascades
               THEN /\ projectAssignments' = assignmentsWithoutProject(projectId)
                    /\ documents' = [documents EXCEPT ![projectId] = 0]
               ELSE UNCHANGED <<projectAssignments, documents>>
            /\ Reply("DELETE_PROJECT", actor, projectId, Null, 204, "")
    /\ UNCHANGED <<session, storageImpl, users, lastUserId, lastProjectId, inflight>>

----------------------------------------------------------------------------
(* POST /api/users, PATCH /api/users/:id/role, DELETE /api/users/:id *)

\* server/routes.ts validates role against z.enum(['project_lead','developer']);
\* the later revision stores whatever role the body names
createUserChecks(actor, role) ==
    IF ~isAuthenticated(actor) THEN R(401, "User not found")
    ELSE IF ~requireAdmin(actor) THEN R(403, "Insufficient permissions")
    ELSE IF RoutesRev = "routes.ts" /\ role \notin {"project_lead", "developer"}
         THEN R(400, "Invalid user data")
    ELSE Proceed

CreateUser(actor, role) ==
    LET check == createUserChecks(actor, role) IN
    /\ inflight = {}
    /\ IF check.status # 0
       THEN /\ Reply("CREATE_USER", actor, Null, Null, check.status, check.message)
            /\ UNCHANGED <<users, lastUserId>>
       ELSE /\ lastUserId < MaxUsers
            /\ lastUserId' = lastUserId + 1
            /\ users' = [u \in DOMAIN users \cup {lastUserId + 1} |->
                           IF u = lastUserId + 1
                           THEN [role |-> role,
                                 passwordHash |-> bcryptHash(TemporaryPassword)]
                           ELSE users[u]]
            /\ Reply("CREATE_USER", actor, Null, lastUserId + 1, 201, "")
    /\ UNCHANGED <<session, storageImpl, projects, lastProjectId, projectAssignments, documents, inflight>>

\* POST /api/auth/register: no middleware in front of it; the role of the body
\* (default 'developer') is stored as given
Register(role) ==
    /\ inflight = {}
    /\ lastUserId < MaxUsers
    /\ lastUserId' = lastUserId + 1
    /\ users' = [u \in DOMAIN users \cup {lastUserId + 1} |->
                   IF u = lastUserId + 1
                           THEN [role |-> role,
                                 passwordHash |-> bcryptHash(TemporaryPassword)]
                           ELSE users[u]]
    /\ Reply("REGISTER", Null, Null, lastUserId + 1, 201, "")
    /\ UNCHANGED <<session, storageImpl, projects, lastProjectId, projectAssignments, documents, inflight>>

updateUserRoleChecks(actor, userId, role) ==
    IF ~isAuthenticated(actor) THEN R(401, "User not found")
    ELSE IF ~requireAdmin(actor) THEN R(403, "Insufficient permissions")
    ELSE IF role \notin {"project_lead", "developer"} THEN R(400, "Invalid role")
    ELSE IF RoutesRev = "routes.ts" /\ userId \notin DOMAIN users
         THEN R(500, "Failed to update user role")
    ELSE Proceed

UpdateUserRole(actor, userId, role) ==
    LET check == updateUserRoleChecks(actor, userId, role) IN
    /\ inflight = {}
    /\ IF check.status # 0
       THEN /\ Reply("UPDATE_ROLE", actor, Null, userId, check.status, check.message)
            /\ UNCHANGED users
       ELSE /\ users' = IF userId \in DOMAIN users
                        THEN [users EXCEPT ![userId].role = role]
                        ELSE users
            /\ Reply("UPDATE_ROLE", actor, Null, userId, 200, "")
    /\ UNCHANGED <<session, storageImpl, lastUserId, projects, lastProjectId, projectAssignments, documents, inflight>>

DeleteUser(actor, userId) ==
    /\ inflight = {}
    /\ IF ~isAuthenticated(actor)
       THEN /\ Reply("DELETE_USER", actor, Null, userId, 401, "User not found")
            /\ UNCHANGED <<users, projectAssignments>>
       ELSE IF ~requireAdmin(actor)
       THEN /\ Reply("DELETE_USER", actor, Null, userId, 403, "Insufficient permissions")
            /\ UNCHANGED <<users, projectAssignments>>
       ELSE /\ users' = withoutUser(userId)
            /\ IF deleteUserCascades
               THEN projectAssignments' = assignmentsWithoutUser(userId)
               ELSE UNCHANGED projectAssignments
            /\ Reply("DELETE_USER", actor, Null, userId, 204, "")
    /\ UNCHANGED <<session, storageImpl, lastUserId, projects, lastProjectId, documents, inflight>>

----------------------------------------------------------------------------
(* POST /api/projects/:id/documents *)

UploadDocument(actor, projectId) ==
    /\ inflight = {}
    /\ IF ~isAuthenticated(actor)
       THEN /\ Reply("UPLOAD", actor, projectId, Null, 401, "User not found")
            /\ UNCHANGED documents
       ELSE IF ~requireProjectLead(actor)
       THEN /\ Reply("UPLOAD", actor, projectId, Null, 403, "Insufficient permissions")
            /\ UNCHANGED documents
       ELSE /\ documents[projectId] < MaxDocuments
            /\ documents' = [documents EXCEPT ![projectId] = @ + 1]
            /\ Reply("UPLOAD", actor, projectId, Null, 201, "")
    /\ UNCHANGED <<session, storageImpl, users, lastUserId, projects, lastProjectId, projectAssignments, inflight>>

----------------------------------------------------------------------------
(* DELETE /api/documents/:id, for a document of project projectId *)

\* storage.getDocument exists in server/storage.ts only; the storage objects
\* behind the later routes revision have no such method and the call throws
hasGetDocument == storageImpl = "MongoDBStorage"

DeleteDocument(actor, projectId) ==
    /\ inflight = {}
    /\ IF ~isAuthenticated(actor)
       THEN /\ Reply("DELETE_DOCUMENT", actor, projectId, Null, 401, "User not found")
            /\ UNCHANGED documents
       ELSE IF ~requireProjectLead(actor)
       THEN /\ Reply("DELETE_DOCUMENT", actor, projectId, Null, 403, "Insufficient permissions")
            /\ UNCHANGED documents
       ELSE IF ~hasGetDocument
       THEN /\ Reply("DELETE_DOCUMENT", actor, projectId, Null, 500, "Failed to delete document")
            /\ UNCHANGED documents
       ELSE IF documents[projectId] = 0
       THEN /\ Reply("DELETE_DOCUMENT", actor, projectId, Null, 404, "Document not found")
            /\ UNCHANGED documents
       ELSE /\ documents' = [documents EXCEPT ![projectId] = @ - 1]
            /\ Reply("DELETE_DOCUMENT", actor, projectId, Null, 204, "")
    /\ UNCHANGED <<session, storageImpl, users, lastUserId, projects, lastProjectId,
                   projectAssignments, inflight>>

----------------------------------------------------------------------------
(* GET /api/projects/:id, GET /api/projects/:id/documents,
   GET /api/documents/:id/download *)

\* project.assignments.some(assignment => assignment.userId === userId)
hasAccess(project, userId) == userId \in project.assignments

getProjectDetailsChecks(actor, projectId) ==
    IF ~isAuthenticated(actor) THEN R(401, "User not found")
    ELSE LET project == getProject(projectId) IN
         IF project.kind = "throws" THEN R(500, "Failed to fetch project")
         ELSE IF project.kind = "null" THEN R(404, "Project not found")
         ELSE IF roleOfActor(actor) = "developer" /\ ~hasAccess(project, actor)
              THEN R(403, "Access denied")
         ELSE IF /\ roleOfActor(actor) = "project_lead"
                 /\ ~StrictEquals(project.projectLeadId, actor)
                 /\ ~hasAccess(project, actor)
              THEN R(403, "Access denied")
         ELSE R(200, "")

GetProjectDetails(actor, projectId) ==
    LET answer == getProjectDetailsChecks(actor, projectId) IN
    /\ inflight = {}
    /\ Reply("GET_PROJECT", actor, projectId, Null, answer.status, answer.message)
    /\ UNCHANGED <<session, storageImpl, users, lastUserId, projects, lastProjectId,
                   projectAssignments, documents, inflight>>

\* the listing without the membership test of a developer
listDocumentsChecksNoMembershipTest(actor, projectId) ==
    IF ~isAuthenticated(actor) THEN R(401, "User not found")
    ELSE IF roleOfActor(actor) = "developer"
         THEN LET project == getProject(projectId) IN
              IF project.kind = "throws" THEN R(500, "Failed to fetch documents")
              ELSE IF project.kind = "null" THEN R(404, "Project not found")
              ELSE R(200, "")
    ELSE R(200, "")

\* only a developer has the project looked up
listDocumentsChecks(actor, projectId) ==
    IF ~isAuthenticated(actor) THEN R(401, "User not found")
    ELSE IF roleOfActor(actor) = "developer"
         THEN LET project == getProject(projectId) IN
              IF project.kind = "throws" THEN R(500, "Failed to fetch documents")
              ELSE IF project.kind = "null" THEN R(404, "Project not found")
              ELSE IF ~hasAccess(project, actor) THEN R(403, "Access denied")
              ELSE R(200, "")
    ELSE R(200, "")

ListDocuments(actor, projectId) ==
    LET answer == listDocumentsChecks(actor, projectId) IN
    /\ inflight = {}
    /\ Reply("LIST_DOCUMENTS", actor, projectId, Null, answer.status, answer.message)
    /\ UNCHANGED <<session, storageImpl, users, lastUserId, projects, lastProjectId,
                   projectAssignments, documents, inflight>>

\* the download of a document of project projectId; the uploaded file is
\* taken to be on disk as long as its document is stored
downloadChecks(actor, projectId) ==
    IF ~isAuthenticated(actor) THEN R(401, "User not found")
    ELSE IF ~hasGetDocument THEN R(500, "Failed to download document")
    ELSE IF documents[projectId] = 0 THEN R(404, "Document not found")
    ELSE LET project == getProject(projectId) IN
         IF project.kind = "throws" THEN R(500, "Failed to download document")
         ELSE IF project.kind = "null" THEN R(404, "Project not found")
         ELSE IF roleOfActor(actor) = "developer" /\ ~hasAccess(project, actor)
              THEN R(403, "Access denied")
         ELSE R(200, "")

Download(actor, projectId) ==
    LET answer == downloadChecks(actor, projectId) IN
    /\ inflight = {}
    /\ Reply("DOWNLOAD", actor, projectId, Null, answer.status, answer.message)
    /\ UNCHANGED <<session, storageImpl, users, lastUserId, projects, lastProjectId,
                   projectAssignments, documents, inflight>>

----------------------------------------------------------------------------
(* GET /api/projects *)

Listed(projectIds) == [kind |-> "ok", projects |-> projectIds]

ListThrows == [kind |-> "throws", projects |-> {}]

\* getAllProjects: mongoStorage converts every project and every one of its
\* assignments; the other two backends tolerate a missing creator or user
getAllProjects ==
    IF storageImpl = "mongoStorage" /\ \E p \in DOMAIN projects : getProjectThrows(p)
    THEN ListThrows
    ELSE Listed(DOMAIN projects)

\* getProjectsByUser / getUserProjects: MongoDBStorage populates the project
\* of each of the user's assignments and reads project._id of the result
getProjectsByUser(userId) ==
    LET assigned == {p \in ProjectIds : projectAssignments[<<p, userId>>] > 0} IN
    CASE storageImpl = "MongoDBStorage" ->
            IF assigned \subseteq DOMAIN projects THEN Listed(assigned) ELSE ListThrows
      [] storageImpl = "mongoStorage" ->
            IF \E p \in assigned \cap DOMAIN projects : getProjectThrows(p)
            THEN ListThrows
            ELSE Listed(assigned \cap DOMAIN projects)
      [] storageImpl = "MemoryStorage" -> Listed(assigned \cap DOMAIN projects)

\* MongoDBStorage.getProjectsByLead: Project.find({ projectLeadId: userId })
getProjectsByLead(userId) ==
    Listed({p \in DOMAIN projects : projects[p].projectLeadId = userId})

\* the handler's choice of listing by the role of the actor
visibleProjects(actor) ==
    IF RoutesRev = "routes.ts"
    THEN IF roleOfActor(actor) = "developer" THEN getProjectsByUser(actor)
         ELSE IF roleOfActor(actor) = "project_lead"
         THEN LET ledProjects == getProjectsByLead(actor)
                  assignedProjects == getProjectsByUser(actor)
              IN IF assignedProjects.kind = "throws" THEN ListThrows
                 ELSE Listed(ledProjects.projects \cup assignedProjects.projects)
         ELSE getAllProjects
    ELSE IF roleOfActor(actor) \in {"admin", "project_lead"} THEN getAllProjects
         ELSE getProjectsByUser(actor)

ListProjects(actor) ==
    /\ inflight = {}
    /\ IF ~isAuthenticated(actor)
       THEN Reply("LIST_PROJECTS", actor, Null, Null, 401, "User not found")
       ELSE IF visibleProjects(actor).kind = "throws"
       THEN Reply("LIST_PROJECTS", actor, Null, Null, 500, "Failed to fetch projects")
       ELSE Reply("LIST_PROJECTS", actor, Null, Null, 200, "")
    /\ UNCHANGED <<session, storageImpl, users, lastUserId, projects, lastProjectId,
                   projectAssignments, documents, inflight>>

----------------------------------------------------------------------------
(* GET /api/dashboard/stats *)

Statuses == {"active", "completed", "on_hold"}

\* oneWeekFromNow.setDate(oneWeekFromNow.getDate() + 7)
Week == 7

\* the clock's reading in days, and the deadlines around the week it opens
Now == Week + 1
Deadlines == {Null, Now - 1, Now, Now + Week, Now + Week + 1}

RECURSIVE SumOver(_, _)
SumOver(counts, keys) ==
    IF keys = {} THEN 0
    ELSE LET k == CHOOSE x \in keys : TRUE
         IN counts[k] + SumOver(counts, keys \ {k})

\* the list functions of MongoDBStorage return every project with
\* assignments: [] and its document count in _count.documents
listedAssignments(projectId) == {}

\* the dashboard of a storage object that has no getDashboardStats
hasDashboardStats == storageImpl # "mongoStorage"

\* DatabaseStorage.getDashboardStats of server/storage.ts: the projects by role
statsProjects(userId, userRole) ==
    IF userRole = "admin" THEN getAllProjects
    ELSE IF userRole = "project_lead"
    THEN LET ledProjects == getProjectsByLead(userId)
             assignedProjects == getProjectsByUser(userId)
         IN IF assignedProjects.kind = "throws" THEN ListThrows
            ELSE Listed(ledProjects.projects \cup assignedProjects.projects)
    ELSE getProjectsByUser(userId)

\* the counts of server/storage.ts over the projects it selected
statsOver(projectIds) ==
    [activeProjects |-> Cardinality({p \in projectIds : projects[p].status = "active"}),
     teamMembers |-> Cardinality(UNION {listedAssignments(p) : p \in projectIds}),
     dueThisWeek |-> Cardinality({p \in projectIds :
                                     /\ projects[p].deadline # Null
                                     /\ projects[p].deadline <= Now + Week
                                     /\ projects[p].deadline >= Now}),
     totalDocuments |-> SumOver(documents, projectIds)]

\* MemoryStorage.getDashboardStats(): every project and every document,
\* whoever asks; the answer has no teamMembers and no dueThisWeek
statsOfMemoryStorage ==
    [activeProjects |-> Cardinality({p \in DOMAIN projects : projects[p].status = "active"}),
     teamMembers |-> Undefined,
     dueThisWeek |-> Undefined,
     totalDocuments |-> SumOver(documents, ProjectIds)]

NoStats == [activeProjects |-> Undefined, teamMembers |-> Undefined,
            dueThisWeek |-> Undefined, totalDocuments |-> Undefined]

ReplyStats(actor, status, message, stats) ==
    last' = [op |-> "DASHBOARD_STATS", actor |-> actor, projectId |-> Null,
             userId |-> Null, status |-> status, message |-> message,
             stats |-> stats]

GetDashboardStats(actor) ==
    /\ inflight = {}
    /\ IF ~isAuthenticated(actor)
       THEN ReplyStats(actor, 401, "User not found", NoStats)
       ELSE IF ~hasDashboardStats
       THEN ReplyStats(actor, 500, "Failed to fetch dashboard stats", NoStats)
       ELSE IF storageImpl = "MemoryStorage"
       THEN ReplyStats(actor, 200, "", statsOfMemoryStorage)
       ELSE LET selected == statsProjects(actor, roleOfActor(actor)) IN
            IF selected.kind = "throws"
            THEN ReplyStats(actor, 500, "Failed to fetch dashboard stats", NoStats)
            ELSE ReplyStats(actor, 200, "", statsOver(selected.projects))
    /\ UNCHANGED <<session, storageImpl, users, lastUserId, projects, lastProjectId,
                   projectAssignments, documents, inflight>>

----------------------------------------------------------------------------
(* Sessions: POST /api/auth/login, the logout handler, the first test of    *)
(* isAuthenticated, and PATCH /api/users/password.  A user's email is       *)
(* modelled by the user's id.                                               *)

ReplyOnSession(op, s, actor, password, status, message) ==
    last' = [op |-> op, actor |-> actor, projectId |-> Null, userId |-> actor,
             status |-> status, message |-> message,
             session |-> s, password |-> password]

\* getUserByEmail, then bcrypt.compare with the stored hash
loginChecks(email, password) ==
    IF email \notin DOMAIN users THEN R(401, "Invalid credentials")
    ELSE IF ~bcryptCompare(password, users[email].passwordHash)
    THEN R(401, "Invalid credentials")
    ELSE R(200, "")

Login(s, email, password) ==
    LET check == loginChecks(email, password) IN
    /\ inflight = {}
    /\ IF check.status = 200
       THEN session' = [session EXCEPT ![s] = email]
       ELSE UNCHANGED session
    /\ ReplyOnSession("LOGIN", s, email, password, check.status, check.message)
    /\ UNCHANGED <<storageImpl, users, lastUserId, projects, lastProjectId,
                   projectAssignments, documents, inflight>>

\* req.session.destroy, then the redirect to /login
Logout(s) ==
    /\ inflight = {}
    /\ session' = [session EXCEPT ![s] = Null]
    /\ ReplyOnSession("LOGOUT", s, session[s], TemporaryPassword, 302, "/login")
    /\ UNCHANGED <<storageImpl, users, lastUserId, projects, lastProjectId,
                   projectAssignments, documents, inflight>>

\* isAuthenticated in front of any protected route, on a session without userId
NotAuthenticated(s) ==
    /\ inflight = {}
    /\ session[s] = Null
    /\ ReplyOnSession("PROTECTED", s, Null, TemporaryPassword, 401, "Not authenticated")
    /\ UNCHANGED <<session, storageImpl, users, lastUserId, projects, lastProjectId,
                   projectAssignments, documents, inflight>>

\* if (newPassword.length < 6)
MinPasswordLength == 6

\* updateUserPassword: MongoDBStorage hashes the value it is given once more;
\* the later revision stores the hash through updateUser as it is
updateUserPassword(userId, passwordHash) ==
    [users EXCEPT ![userId].passwordHash =
        IF storageImpl = "MongoDBStorage" THEN bcryptHash(passwordHash) ELSE passwordHash]

changePasswordChecks(userId, currentPassword, newPassword) ==
    IF ~isAuthenticated(userId) THEN R(401, "User not found")
    ELSE IF newPassword.length < MinPasswordLength
    THEN R(400, "New password must be at least 6 characters long")
    ELSE IF ~bcryptCompare(currentPassword, users[userId].passwordHash)
    THEN R(400, "Current password is incorrect")
    ELSE Proceed

ChangePassword(s, currentPassword, newPassword) ==
    LET userId == session[s]
        check == changePasswordChecks(userId, currentPassword, newPassword)
    IN
    /\ inflight = {}
    /\ session[s] # Null
    /\ IF check.status # 0
       THEN /\ last' = [op |-> "CHANGE_PASSWORD", actor |-> userId, projectId |-> Null,
                        userId |-> userId, status |-> check.status,
                        message |-> check.message, session |-> s,
                        password |-> newPassword, currentPassword |-> currentPassword]
            /\ UNCHANGED users
       ELSE /\ users' = updateUserPassword(userId, bcryptHash(newPassword))
            /\ last' = [op |-> "CHANGE_PASSWORD", actor |-> userId, projectId |-> Null,
                        userId |-> userId, status |-> 200,
                        message |-> "Password updated successfully", session |-> s,
                        password |-> newPassword, currentPassword |-> currentPassword]
    /\ UNCHANGED <<session, storageImpl, lastUserId, projects, lastProjectId,
                   projectAssignments, documents, inflight>>

----------------------------------------------------------------------------
(* The system: one request at a time *)

NoRequest == [op |-> "NONE", actor |-> Null, projectId |-> Null, userId |-> Null,
              status |-> 0, message |-> ""]

\* after bootstrap: the default admin and nothing else
Init ==
    /\ storageImpl \in StorageImpls
    /\ users = [u \in {1} |-> [role |-> "admin",
                                  passwordHash |-> bcryptHash(TemporaryPassword)]]
    /\ lastUserId = 1
    /\ projects = [p \in {} |-> [createdBy |-> Null, projectLeadId |-> Null,
                                  status |-> "active", deadline |-> Null]]
    /\ lastProjectId = 0
    /\ projectAssignments = [k \in ProjectIds \X UserIds |-> 0]
    /\ documents = [p \in ProjectIds |-> 0]
    /\ session = [s \in SessionIds |-> Null]
    /\ last = NoRequest
    /\ inflight = {}

\* a session belongs to a user that exists or once existed
Sessions == 1..lastUserId

Next ==
    \/ \E actor \in Sessions, p \in ProjectIds, u \in UserIds : Assign(actor, p, u)
    \/ \E actor \in Sessions, p \in ProjectIds, u \in UserIds : Remove(actor, p, u)
    \/ \E actor \in Sessions, p \in ProjectIds, u \in UserIds \cup {Null} : AssignLead(actor, p, u)
    \/ \E actor \in Sessions, u \in UserIds \cup {Null} : CreateProject(actor, u)
    \/ \E actor \in Sessions, p \in ProjectIds, u \in UserIds \cup {Null, Undefined} :
          UpdateProject(actor, p, u)
    \/ \E actor \in Sessions, p \in ProjectIds : DeleteProject(actor, p)
    \/ \E actor \in Sessions, role \in Roles : CreateUser(actor, role)
    \/ \E actor \in Sessions, u \in UserIds, role \in Roles : UpdateUserRole(actor, u, role)
    \/ \E actor \in Sessions, u \in UserIds : DeleteUser(actor, u)
    \/ \E actor \in Sessions, p \in ProjectIds : UploadDocument(actor, p)
    \/ \E actor \in Sessions : ListProjects(actor)
    \/ \E role \in Roles : Register(role)
    \/ \E actor \in Sessions, p \in ProjectIds : DeleteDocument(actor, p)
    \/ \E actor \in Sessions, p \in ProjectIds : GetProjectDetails(actor, p)
    \/ \E actor \in Sessions, p \in ProjectIds : ListDocuments(actor, p)
    \/ \E actor \in Sessions, p \in ProjectIds : Download(actor, p)

Spec == Init /\ [][Next]_vars

\* the requests that build what the dashboard counts, with project updates
\* that carry a status and a deadline, and the dashboard itself
NextDashboard ==
    \/ \E actor \in Sessions, role \in Roles : CreateUser(actor, role)
    \/ \E actor \in Sessions, u \in UserIds \cup {Null} : CreateProject(actor, u)
    \/ \E actor \in Sessions, p \in ProjectIds, u \in UserIds : Assign(actor, p, u)
    \/ \E actor \in Sessions, p \in ProjectIds : UploadDocument(actor, p)
    \/ \E actor \in Sessions, p \in ProjectIds, status \in Statuses, deadline \in Deadlines :
          UpdateProjectDetails(actor, p, status, deadline)
    \/ \E actor \in Sessions : GetDashboardStats(actor)

SpecDashboard == Init /\ [][NextDashboard]_vars

\* logins and logouts, and requests that arrive on a session: the actor of a
\* protected request is the user that its session holds
NextSession ==
    \/ \E s \in SessionIds, email \in UserIds, password \in Passwords :
          Login(s, email, password)
    \/ \E s \in SessionIds : Logout(s)
    \/ \E s \in SessionIds : NotAuthenticated(s)
    \/ \E s \in SessionIds, currentPassword \in Passwords, newPassword \in Passwords :
          ChangePassword(s, currentPassword, newPassword)
    \/ \E s \in SessionIds, role \in Roles :
          session[s] # Null /\ CreateUser(session[s], role)
    \/ \E s \in SessionIds, u \in UserIds :
          session[s] # Null /\ DeleteUser(session[s], u)
    \/ \E s \in SessionIds :
          session[s] # Null /\ ListProjects(session[s])

SpecSession == Init /\ [][NextSession]_vars

----------------------------------------------------------------------------
(* Concurrent ASSIGN requests: the handler split where it awaits the store *)

Request(id, op, actor, projectId, userId, pc, response) ==
    [id |-> id, op |-> op, actor |-> actor, projectId |-> projectId, userId |-> userId,
     pc |-> pc, status |-> response.status, message |-> response.message]

finish(request, response) ==
    [request EXCEPT !.pc = "done", !.status = response.status, !.message = response.message]

\* projectAssignmentSchema.index({ projectId: 1, userId: 1 }, { unique: true })
\* exists in shared/schema.ts only
uniqueIndex == storageImpl = "MongoDBStorage"

\* MongoDBStorage.assignUserToProject looks for an existing assignment before
\* it saves; the other two backends go straight to the save
existenceCheck == storageImpl = "MongoDBStorage"

\* the middleware and the handler up to the call of storage.assignUserToProject
AssignBegin(id, actor, projectId, userId) ==
    LET check == assignChecks(actor, projectId, userId) IN
    /\ inflight' = inflight \cup
          {IF check.status # 0
           THEN Request(id, "ASSIGN", actor, projectId, userId, "done", check)
           ELSE Request(id, "ASSIGN", actor, projectId, userId,
                        IF existenceCheck THEN "findOne" ELSE "save", Proceed)}
    /\ UNCHANGED <<session, storageImpl, users, lastUserId, projects, lastProjectId,
                   projectAssignments, documents, last>>

\* await ProjectAssignment.findOne({ projectId, userId })
AssignFindOne(request) ==
    /\ request.pc = "findOne"
    /\ inflight' = (inflight \ {request}) \cup
          {IF projectAssignments[<<request.projectId, request.userId>>] > 0
           THEN finish(request, assignCatch)
           ELSE [request EXCEPT !.pc = "save"]}
    /\ UNCHANGED <<session, storageImpl, users, lastUserId, projects, lastProjectId,
                   projectAssignments, documents, last>>

\* await assignment.save(): the unique index, where there is one, refuses a
\* second document for the pair and the handler's catch block answers
AssignSave(request) ==
    /\ request.pc = "save"
    /\ IF uniqueIndex /\ projectAssignments[<<request.projectId, request.userId>>] > 0
       THEN /\ inflight' = (inflight \ {request}) \cup {finish(request, assignCatch)}
            /\ UNCHANGED projectAssignments
       ELSE /\ projectAssignments[<<request.projectId, request.userId>>] < MaxDuplicates
            /\ projectAssignments' = assignUserToProject(request.projectId, request.userId)
            /\ inflight' = (inflight \ {request}) \cup {finish(request, R(201, ""))}
    /\ UNCHANGED <<session, storageImpl, users, lastUserId, projects, lastProjectId, documents, last>>

\* DELETE /api/projects/:id: the middleware, up to storage.deleteProject
DeleteProjectBegin(id, actor, projectId) ==
    /\ inflight' = inflight \cup
          {IF ~isAuthenticated(actor)
           THEN Request(id, "DELETE_PROJECT", actor, projectId, Null, "done",
                        R(401, "User not found"))
           ELSE IF ~requireAdmin(actor)
           THEN Request(id, "DELETE_PROJECT", actor, projectId, Null, "done",
                        R(403, "Insufficient permissions"))
           ELSE Request(id, "DELETE_PROJECT", actor, projectId, Null,
                        "deleteProject", Proceed)}
    /\ UNCHANGED <<session, storageImpl, users, lastUserId, projects, lastProjectId,
                   projectAssignments, documents, last>>

\* await Project.findByIdAndDelete(id); MemoryStorage.deleteProject has no
\* await and removes the assignments and the documents in the same step;
\* mongoStorage.deleteProject ends here
DeleteProjectParent(request) ==
    /\ request.pc = "deleteProject"
    /\ projects' = withoutProject(request.projectId)
    /\ IF storageImpl = "MongoDBStorage"
       THEN /\ inflight' = (inflight \ {request}) \cup
                              {[request EXCEPT !.pc = "deleteAssignments"]}
            /\ UNCHANGED <<projectAssignments, documents>>
       ELSE /\ inflight' = (inflight \ {request}) \cup {finish(request, R(204, ""))}
            /\ IF deleteProjectCascades
               THEN /\ projectAssignments' = assignmentsWithoutProject(request.projectId)
                    /\ documents' = [documents EXCEPT ![request.projectId] = 0]
               ELSE UNCHANGED <<projectAssignments, documents>>
    /\ UNCHANGED <<session, storageImpl, users, lastUserId, lastProjectId, last>>

\* await ProjectAssignment.deleteMany({ projectId: id })
DeleteProjectAssignments(request) ==
    /\ request.pc = "deleteAssignments"
    /\ projectAssignments' = assignmentsWithoutProject(request.projectId)
    /\ inflight' = (inflight \ {request}) \cup {[request EXCEPT !.pc = "deleteDocuments"]}
    /\ UNCHANGED <<session, storageImpl, users, lastUserId, projects, lastProjectId, documents, last>>

\* await Document.deleteMany({ projectId: id }), then res.status(204)
DeleteProjectDocuments(request) ==
    /\ request.pc = "deleteDocuments"
    /\ documents' = [documents EXCEPT ![request.projectId] = 0]
    /\ inflight' = (inflight \ {request}) \cup {finish(request, R(204, ""))}
    /\ UNCHANGED <<session, storageImpl, users, lastUserId, projects, lastProjectId,
                   projectAssignments, last>>

\* a populated store, as the sequential requests leave it: the default admin,
\* the other users with the roles an admin can give, every project created
InitConcurrent ==
    /\ storageImpl \in StorageImpls
    /\ users \in {f \in [UserIds -> {[role |-> r,
                                       passwordHash |-> bcryptHash(TemporaryPassword)] :
                                          r \in Roles}] :
                     \A u \in UserIds : f[u].role = "admin" <=> u = 1}
    /\ lastUserId = MaxUsers
    /\ projects \in [ProjectIds -> {[createdBy |-> c, projectLeadId |-> l,
                                      status |-> "active", deadline |-> Null] :
                                       c \in UserIds, l \in UserIds \cup {Null}}]
    /\ lastProjectId = MaxProjects
    /\ projectAssignments = [k \in ProjectIds \X UserIds |-> 0]
    /\ documents = [p \in ProjectIds |-> 0]
    /\ session = [s \in SessionIds |-> Null]
    /\ last = NoRequest
    /\ inflight = {}

NextConcurrent ==
    \/ /\ Cardinality(inflight) < MaxRequests
       /\ \E actor \in UserIds, p \in ProjectIds, u \in UserIds :
             AssignBegin(Cardinality(inflight) + 1, actor, p, u)
    \/ \E request \in inflight : AssignFindOne(request)
    \/ \E request \in inflight : AssignSave(request)
    \/ /\ Cardinality(inflight) < MaxRequests
       /\ \E actor \in UserIds, p \in ProjectIds :
             DeleteProjectBegin(Cardinality(inflight) + 1, actor, p)
    \/ \E request \in inflight : DeleteProjectParent(request)
    \/ \E request \in inflight : DeleteProjectAssignments(request)
    \/ \E request \in inflight : DeleteProjectDocuments(request)

SpecConcurrent == InitConcurrent /\ [][NextConcurrent]_vars

----------------------------------------------------------------------------
(* The error taxonomy, read off the responses *)

InsufficientRole(response) ==
    response.status = 403 /\ response.message = "Insufficient permissions"

InvalidTargetRole(response) ==
    /\ response.status \in {400, 403}
    /\ response.message \in {"Admins can only assign project leads to projects",
                             "Project leads can only assign developers to projects"}

NotRelatedToProject(response) ==
    /\ response.status = 403
    /\ response.message \in
          {"You can only assign users to projects you lead or created",
           "You can only assign users to projects you lead, created, or are assigned to"}

DuplicateMembership(response) ==
    response.status = 400 /\ response.message = "User is already assigned to this project"

Succeeded(response) == response.status \in {200, 201, 204}

\* a request turned down by a policy or lookup check (4xx)
Rejected(response) == response.status \in {400, 401, 403, 404}

----------------------------------------------------------------------------
(* Claims *)

\* C1: membership uniqueness. After every operation each (projectId, userId)
\* pair has at most one assignment, and an ASSIGN that gets past the role and
\* lookup checks for a pair that already has an assignment is answered
\* DuplicateMembership and stores nothing.
C1_MembershipUniqueness ==
    [][ /\ \A k \in ProjectIds \X UserIds : projectAssignments'[k] <= 1
        /\ ( /\ last'.op = "ASSIGN"
             /\ projectAssignments[<<last'.projectId, last'.userId>>] > 0
             /\ last'.status \notin {401, 403, 404} )
           => (DuplicateMembership(last') /\ UNCHANGED projectAssignments)
      ]_vars

\* the relation of a user to a project, on the stored ids: the project's
\* lead, its creator, or one of its members
relatedToProject(userId, projectId) ==
    \/ projects[projectId].projectLeadId = userId
    \/ projects[projectId].createdBy = userId
    \/ userId \in membersOf(projectId)

roleOf(userId) == users[userId].role

\* C3: admin target restriction. For an admin actor, an existing project and an
\* existing target without an assignment to it, ASSIGN succeeds if and only if
\* the target's role is project_lead; for any other target role the answer is
\* InvalidTargetRole and no assignment is stored.
C3_AdminTargetRestriction ==
    [][ ( /\ last'.op = "ASSIGN"
          /\ last'.actor \in DOMAIN users /\ roleOf(last'.actor) = "admin"
          /\ last'.projectId \in DOMAIN projects
          /\ last'.userId \in DOMAIN users
          /\ projectAssignments[<<last'.projectId, last'.userId>>] = 0
          /\ ~getProjectThrows(last'.projectId) )
        => /\ Succeeded(last') <=> roleOf(last'.userId) = "project_lead"
           /\ roleOf(last'.userId) # "project_lead"
                 => (InvalidTargetRole(last') /\ UNCHANGED projectAssignments)
      ]_vars

\* C4: lead relation gating. For a project_lead actor, an existing project and a
\* developer target without an assignment to it, ASSIGN succeeds if and only if
\* the actor is the project's lead, its creator or one of its members; an
\* unrelated lead is answered NotRelatedToProject.
C4_LeadRelationGating ==
    [][ ( /\ last'.op = "ASSIGN"
          /\ last'.actor \in DOMAIN users /\ roleOf(last'.actor) = "project_lead"
          /\ last'.projectId \in DOMAIN projects
          /\ last'.userId \in DOMAIN users /\ roleOf(last'.userId) = "developer"
          /\ projectAssignments[<<last'.projectId, last'.userId>>] = 0
          /\ ~getProjectThrows(last'.projectId) )
        => /\ Succeeded(last') <=> relatedToProject(last'.actor, last'.projectId)
           /\ ~relatedToProject(last'.actor, last'.projectId)
                 => NotRelatedToProject(last')
      ]_vars

\* C5: deny-by-default for developers. Every ASSIGN, REMOVE and ASSIGN_LEAD
\* request of an actor whose role is developer is answered InsufficientRole and
\* leaves the assignments and the projects as they were.
C5_DenyByDefault ==
    [][ ( /\ last'.op \in {"ASSIGN", "REMOVE", "ASSIGN_LEAD"}
          /\ last'.actor \in DOMAIN users /\ roleOf(last'.actor) = "developer" )
        => (InsufficientRole(last') /\ UNCHANGED <<projectAssignments, projects>>)
      ]_vars

\* a developer was refused the removal of an assignment that exists
C5_witness ==
    /\ last.op = "REMOVE"
    /\ last.actor \in DOMAIN users /\ roleOf(last.actor) = "developer"
    /\ projectAssignments[<<last.projectId, last.userId>>] > 0
    /\ InsufficientRole(last)

\* C6: REMOVE policy. REMOVE by an admin succeeds on any project; REMOVE by a
\* project_lead on an existing project succeeds only when that lead is the
\* project's lead, its creator or one of its members, and otherwise removes
\* nothing.
C6_RemovePolicy ==
    [][ ( /\ last'.op = "REMOVE"
          /\ last'.actor \in DOMAIN users )
        => /\ roleOf(last'.actor) = "admin" => Succeeded(last')
           /\ ( /\ roleOf(last'.actor) = "project_lead"
                /\ last'.projectId \in DOMAIN projects
                /\ ~relatedToProject(last'.actor, last'.projectId) )
              => UNCHANGED projectAssignments
      ]_vars

\* C7: ASSIGN_LEAD succeeds only for an admin actor and a new lead that exists
\* with role project_lead or admin; on success the project, when there is one
\* under that id, has the new lead's id as its projectLeadId; a request the
\* policy rejects (a 4xx answer) leaves the projects unchanged.
C7_AssignLead ==
    [][ last'.op = "ASSIGN_LEAD"
        => /\ Succeeded(last')
                 => /\ last'.actor \in DOMAIN users /\ roleOf(last'.actor) = "admin"
                    /\ last'.userId \in DOMAIN users
                    /\ roleOf(last'.userId) \in {"project_lead", "admin"}
                    /\ last'.projectId \in DOMAIN projects
                          => projects'[last'.projectId].projectLeadId = last'.userId
           /\ Rejected(last') => UNCHANGED projects
      ]_vars

\* an admin made a project_lead other than the creator the lead of a project
C7_witness ==
    /\ last.op = "ASSIGN_LEAD" /\ Succeeded(last)
    /\ last.projectId \in DOMAIN projects
    /\ projects[last.projectId].projectLeadId = last.userId
    /\ last.userId \in DOMAIN users /\ roleOf(last.userId) = "project_lead"
    /\ projects[last.projectId].createdBy # last.userId

\* C8: project-lead invariant. Every project's projectLeadId is unset or names
\* an existing user whose role is project_lead or admin.
C8_ProjectLeadInvariant ==
    \A p \in DOMAIN projects :
        \/ projects[p].projectLeadId = Null
        \/ /\ projects[p].projectLeadId \in DOMAIN users
           /\ roleOf(projects[p].projectLeadId) \in {"project_lead", "admin"}

\* C9: project cascade. Once a project has been deleted no assignment and no
\* document of that project is left in the store.
C9_ProjectCascade ==
    [][ ( /\ last'.op = "DELETE_PROJECT" /\ Succeeded(last')
          /\ last'.projectId \in DOMAIN projects )
        => /\ \A u \in UserIds : projectAssignments'[<<last'.projectId, u>>] = 0
           /\ documents'[last'.projectId] = 0
      ]_vars

\* C10: user cascade. Once a user has been deleted no assignment of that user
\* is left in the store.
C10_UserCascade ==
    [][ ( /\ last'.op = "DELETE_USER" /\ Succeeded(last')
          /\ last'.userId \in DOMAIN users )
        => \A p \in ProjectIds : projectAssignments'[<<p, last'.userId>>] = 0
      ]_vars

\* a request the policy or a lookup turned down before the store was asked to
\* insert
PolicyRejected(response) ==
    \/ response.status \in {401, 404}
    \/ InsufficientRole(response)
    \/ InvalidTargetRole(response)
    \/ NotRelatedToProject(response)

\* C2: of two concurrent ASSIGN requests for the same (projectId, userId) that
\* both get past the policy, whatever the interleaving of their existence
\* checks and inserts, exactly one succeeds and the other is answered
\* DuplicateMembership; the pair never ends with two assignments.
C2_ConcurrentAssign ==
    \A r1, r2 \in inflight :
        ( /\ r1.id # r2.id
          /\ r1.op = "ASSIGN" /\ r2.op = "ASSIGN"
          /\ r1.pc = "done" /\ r2.pc = "done"
          /\ r1.projectId = r2.projectId /\ r1.userId = r2.userId
          /\ ~PolicyRejected(r1) /\ ~PolicyRejected(r2) )
        => /\ \/ Succeeded(r1) /\ DuplicateMembership(r2)
              \/ Succeeded(r2) /\ DuplicateMembership(r1)
           /\ projectAssignments[<<r1.projectId, r1.userId>>] <= 1

\* C11: no orphan assignments under concurrency. Once a project deletion and
\* an ASSIGN to the same project, started in either order and interleaved in
\* any way, have both finished and the deletion succeeded, no assignment
\* references the deleted project.
C11_NoOrphanMemberships ==
    \A d, a \in inflight :
        ( /\ d.op = "DELETE_PROJECT" /\ d.pc = "done" /\ Succeeded(d)
          /\ a.op = "ASSIGN" /\ a.pc = "done"
          /\ a.projectId = d.projectId )
        => \A u \in UserIds : projectAssignments[<<d.projectId, u>>] = 0

\* C12: a failed ASSIGN, whatever it was turned down for, leaves the
\* assignments exactly as they were before the call.
C12_FailedAssignUnchanged ==
    [][ (last'.op = "ASSIGN" /\ ~Succeeded(last'))
        => UNCHANGED projectAssignments
      ]_vars

\* an admin's ASSIGN of a user who already has an assignment in the project
\* was refused by the store, and the one assignment is still there
C12_witness ==
    /\ last.op = "ASSIGN" /\ ~Succeeded(last)
    /\ last.actor \in DOMAIN users /\ roleOf(last.actor) = "admin"
    /\ last.userId \in DOMAIN users
    /\ ~PolicyRejected(last)
    /\ ~hasOrphanAssignment(last.projectId)
    /\ projectAssignments[<<last.projectId, last.userId>>] = 1

\* C13: visibility for leads and admins. A project listing answered to an
\* admin or to a project_lead, whatever that lead leads or is assigned to,
\* holds every existing project.
C13_LeadAdminVisibility ==
    ( /\ last.op = "LIST_PROJECTS" /\ Succeeded(last)
      /\ last.actor \in DOMAIN users
      /\ roleOf(last.actor) \in {"admin", "project_lead"} )
    => visibleProjects(last.actor).projects = DOMAIN projects

\* C14: visibility for developers. A project listing requested by a developer
\* is answered with exactly the existing projects in which that developer has
\* an assignment.
C14_DeveloperVisibility ==
    ( /\ last.op = "LIST_PROJECTS"
      /\ last.actor \in DOMAIN users
      /\ roleOf(last.actor) = "developer" )
    => /\ Succeeded(last)
       /\ visibleProjects(last.actor).projects =
             {p \in DOMAIN projects : last.actor \in membersOf(p)}

\* C15: user management is admin-only. Every step that adds a user, removes a
\* user or changes a user's role answers a request of an authenticated actor
\* whose role is admin.
C15_UserManagementAdminOnly ==
    [][ users' # users
        => /\ last'.actor \in DOMAIN users
           /\ roleOf(last'.actor) = "admin"
      ]_vars

\* C16: no new admins. No step gives the role admin to a user who did not
\* have it before the step.
C16_NoNewAdmins ==
    [][ \A u \in DOMAIN users' :
           users'[u].role = "admin" => (u \in DOMAIN users /\ users[u].role = "admin")
      ]_vars

\* C17: project update rights. An update of a project requested by a
\* project_lead who is neither the project's lead nor its creator (or for an
\* id under which there is no project) does not succeed and leaves the
\* projects unchanged; an update requested by a developer is answered
\* InsufficientRole and leaves the projects unchanged.
C17_ProjectUpdateRights ==
    [][ ( /\ last'.op = "UPDATE_PROJECT"
          /\ last'.actor \in DOMAIN users )
        => /\ roleOf(last'.actor) = "developer"
                 => (InsufficientRole(last') /\ UNCHANGED projects)
           /\ ( /\ roleOf(last'.actor) = "project_lead"
                /\ \/ last'.projectId \notin DOMAIN projects
                   \/ /\ projects[last'.projectId].projectLeadId # last'.actor
                      /\ projects[last'.projectId].createdBy # last'.actor )
              => (~Succeeded(last') /\ UNCHANGED projects)
      ]_vars

\* a project_lead who neither leads nor created an existing project was
\* refused its update
C17_witness ==
    /\ last.op = "UPDATE_PROJECT"
    /\ last.status = 403
    /\ last.message = "You can only update projects you lead or created"
    /\ last.actor \in DOMAIN users /\ roleOf(last.actor) = "project_lead"
    /\ last.projectId \in DOMAIN projects
    /\ projects[last.projectId].projectLeadId # last.actor
    /\ projects[last.projectId].createdBy # last.actor
    /\ last.userId \in UserIds

\* C18: document mutation rights. An upload to, or a deletion of a document
\* of, an existing project requested by a project_lead who is not the
\* project's lead, its creator or one of its members does not succeed and
\* leaves the documents unchanged.
C18_DocumentMutationRights ==
    [][ ( /\ last'.op \in {"UPLOAD", "DELETE_DOCUMENT"}
          /\ last'.actor \in DOMAIN users /\ roleOf(last'.actor) = "project_lead"
          /\ last'.projectId \in DOMAIN projects
          /\ ~relatedToProject(last'.actor, last'.projectId) )
        => (~Succeeded(last') /\ UNCHANGED documents)
      ]_vars

C20_AssignOutcomeMapping ==
    [][ ( last'.op = "ASSIGN" /\ last'.actor \in DOMAIN users )
        => /\ Succeeded(last') => last'.status = 201
           /\ roleOf(last'.actor) = "developer" => last'.status = 403
           /\ ( roleOf(last'.actor) # "developer" /\ last'.userId \notin DOMAIN users )
              => last'.status = 404
           /\ last'.message = "Project not found" => last'.status = 404
           /\ last'.message \in {"Admins can only assign project leads to projects",
                                 "Project leads can only assign developers to projects"}
              => last'.status = 400
           /\ ( /\ assignChecks(last'.actor, last'.projectId, last'.userId).status = 0
                /\ last'.projectId \in DOMAIN projects
                /\ projectAssignments[<<last'.projectId, last'.userId>>] > 0 )
              => last'.status = 400
      ]_vars

\* C21: REMOVE is a no-op on absence. A REMOVE by an admin or a project_lead
\* is answered 204; for a pair without an assignment it changes nothing; it
\* changes the assignments of no other pair; and a second application of the
\* removal to the store it leaves changes nothing more.
C21_RemoveNoOpOnAbsence ==
    [][ ( /\ last'.op = "REMOVE"
          /\ last'.actor \in DOMAIN users
          /\ roleOf(last'.actor) \in {"admin", "project_lead"} )
        => /\ last'.status = 204
           /\ projectAssignments[<<last'.projectId, last'.userId>>] = 0
              => UNCHANGED projectAssignments
           /\ \A pair \in DOMAIN projectAssignments :
                 pair # <<last'.projectId, last'.userId>>
                 => projectAssignments'[pair] = projectAssignments[pair]
           /\ removeUserFromProjectIn(projectAssignments', last'.projectId, last'.userId)
                 = projectAssignments'
      ]_vars

\* C22: ownership is fixed. A project that an operation creates has the
\* requesting actor's id as its createdBy, whatever the request body carries,
\* and no operation changes the createdBy of a project that stays stored.
C22_OwnershipFixed ==
    [][ /\ \A p \in DOMAIN projects' \ DOMAIN projects :
              /\ last'.op = "CREATE_PROJECT"
              /\ projects'[p].createdBy = last'.actor
        /\ \A p \in DOMAIN projects' \cap DOMAIN projects :
              projects'[p].createdBy = projects[p].createdBy
      ]_vars

\* a project update by somebody other than the creator succeeded and changed
\* the project's lead
C22_witness ==
    /\ last.op = "UPDATE_PROJECT" /\ Succeeded(last)
    /\ last.projectId \in DOMAIN projects
    /\ projects[last.projectId].createdBy # last.actor
    /\ projects[last.projectId].projectLeadId = last.userId
    /\ last.userId \in UserIds

\* C23: dashboard scope. The stats answered to an actor count the projects
\* that the project list returns to that actor: activeProjects is the number
\* of those projects whose status is active and totalDocuments is the number
\* of documents of those projects (stated for stores in which every document
\* belongs to a stored project).
C23_DashboardScope ==
    ( /\ last.op = "DASHBOARD_STATS" /\ Succeeded(last)
      /\ last.actor \in DOMAIN users
      /\ visibleProjects(last.actor).kind = "ok"
      /\ \A p \in ProjectIds \ DOMAIN projects : documents[p] = 0 )
    => LET visible == visibleProjects(last.actor).projects IN
       /\ last.stats.activeProjects =
             Cardinality({p \in visible : projects[p].status = "active"})
       /\ last.stats.totalDocuments = SumOver(documents, visible)

\* C24: dueThisWeek. A dashboard answer that reports dueThisWeek reports the
\* number of the actor's visible projects whose status is active and whose
\* deadline d satisfies Now <= d <= Now + Week.
C24_DueThisWeek ==
    ( /\ last.op = "DASHBOARD_STATS" /\ Succeeded(last)
      /\ last.actor \in DOMAIN users
      /\ visibleProjects(last.actor).kind = "ok"
      /\ last.stats.dueThisWeek # Undefined )
    => last.stats.dueThisWeek =
          Cardinality({p \in visibleProjects(last.actor).projects :
                          /\ projects[p].status = "active"
                          /\ projects[p].deadline # Null
                          /\ Now <= projects[p].deadline
                          /\ projects[p].deadline <= Now + Week})

\* C25: teamMembers. A dashboard answer that reports teamMembers reports the
\* number of distinct users who have an assignment in one of the actor's
\* visible projects.
C25_TeamMembers ==
    ( /\ last.op = "DASHBOARD_STATS" /\ Succeeded(last)
      /\ last.actor \in DOMAIN users
      /\ visibleProjects(last.actor).kind = "ok"
      /\ last.stats.teamMembers # Undefined )
    => last.stats.teamMembers =
          Cardinality({u \in UserIds :
                          \E p \in visibleProjects(last.actor).projects :
                              projectAssignments[<<p, u>>] > 0})

\* C26: list/detail consistency. Every project that the project list has just
\* returned to an actor can be read by that actor through the single-project
\* read without an access-denied answer.
C26_ListDetailConsistency ==
    ( /\ last.op = "LIST_PROJECTS" /\ Succeeded(last)
      /\ last.actor \in DOMAIN users )
    => \A p \in visibleProjects(last.actor).projects :
          getProjectDetailsChecks(last.actor, p).status # 403

\* C27: self-removal and its consequence. A REMOVE by which a project_lead
\* removes their own assignment succeeds and removes it; and an ASSIGN on an
\* existing project by a project_lead who is not its lead, not its creator and
\* not one of its members stores nothing, does not succeed and, when the
\* target exists and the project can be read, is answered NotRelatedToProject.
C27_SelfRemoval ==
    [][ /\ ( /\ last'.op = "REMOVE"
             /\ last'.actor \in DOMAIN users /\ roleOf(last'.actor) = "project_lead"
             /\ last'.userId = last'.actor
             /\ projectAssignments[<<last'.projectId, last'.actor>>] > 0 )
           => /\ Succeeded(last')
              /\ projectAssignments'[<<last'.projectId, last'.actor>>]
                    = projectAssignments[<<last'.projectId, last'.actor>>] - 1
        /\ ( /\ last'.op = "ASSIGN"
             /\ last'.actor \in DOMAIN users /\ roleOf(last'.actor) = "project_lead"
             /\ last'.projectId \in DOMAIN projects
             /\ ~relatedToProject(last'.actor, last'.projectId) )
           => /\ ~Succeeded(last')
              /\ UNCHANGED projectAssignments
              /\ ( last'.userId \in DOMAIN users /\ ~getProjectThrows(last'.projectId) )
                 => NotRelatedToProject(last')
      ]_vars

\* a project_lead has just removed themselves from an existing project and is
\* now neither its lead nor its creator nor a member
C27_witness ==
    /\ last.op = "REMOVE" /\ Succeeded(last)
    /\ last.actor = last.userId
    /\ last.actor \in DOMAIN users /\ roleOf(last.actor) = "project_lead"
    /\ last.projectId \in DOMAIN projects
    /\ ~relatedToProject(last.actor, last.projectId)

AdminOps == {"ASSIGN_LEAD", "CREATE_USER", "DELETE_PROJECT", "DELETE_USER", "UPDATE_ROLE"}

LeadOps == {"ASSIGN", "REMOVE", "CREATE_PROJECT", "UPDATE_PROJECT", "UPLOAD",
            "DELETE_DOCUMENT"}

ProtectedOps ==
    AdminOps \cup LeadOps \cup
    {"LIST_PROJECTS", "GET_PROJECT", "LIST_DOCUMENTS", "DOWNLOAD", "DASHBOARD_STATS"}

\* C28: authorization by the stored role. A protected request on the session
\* of a user who is no longer stored is answered 401 and changes nothing; a
\* request of a stored user is not answered 401, and its role gate decides by
\* the role the user has in the store when the request arrives: an admin-only
\* operation is answered InsufficientRole exactly when that role is not admin,
\* and a lead-or-admin operation exactly when it is developer.
C28_StoredRoleDecides ==
    [][ last'.op \in ProtectedOps
        => /\ last'.actor \notin DOMAIN users
              => (last'.status = 401 /\ UNCHANGED store)
           /\ last'.actor \in DOMAIN users
              => /\ last'.status # 401
                 /\ last'.op \in AdminOps
                    => (InsufficientRole(last') <=> roleOf(last'.actor) # "admin")
                 /\ last'.op \in LeadOps
                    => (InsufficientRole(last') <=> roleOf(last'.actor) = "developer")
      ]_vars

\* a user who was deleted sent a request on their session and got 401
C28_witness ==
    /\ last.op \in ProtectedOps
    /\ last.actor \in Sessions /\ last.actor \notin DOMAIN users
    /\ last.status = 401

\* C29: session lifecycle. A login that fails leaves every session as it was;
\* a session comes to hold a user only by a login on that session whose email
\* is a stored user's and whose password hashes to that user's stored hash;
\* a logout leaves its session without a user; a protected request on a
\* session without a user is answered 401; and a protected request succeeds
\* only for the user that some session holds.
C29_SessionLifecycle ==
    [][ /\ (last'.op = "LOGIN" /\ last'.status # 200) => UNCHANGED session
        /\ \A s \in SessionIds :
              (session'[s] # session[s] /\ session'[s] # Null)
              => /\ last'.op = "LOGIN" /\ last'.status = 200
                 /\ last'.session = s
                 /\ session'[s] = last'.actor
                 /\ last'.actor \in DOMAIN users
                 /\ users[last'.actor].passwordHash = bcryptHash(last'.password)
        /\ last'.op = "LOGOUT" => session'[last'.session] = Null
        /\ last'.op = "PROTECTED" => last'.status = 401
        /\ ( last'.op \in ProtectedOps \cup {"CHANGE_PASSWORD"} /\ Succeeded(last') )
           => \E s \in SessionIds : session[s] = last'.actor
      ]_vars

\* a session that held a user has just been logged out
C29_witness ==
    /\ last.op = "LOGOUT"
    /\ last.actor \in DOMAIN users
    /\ session[last.session] = Null

\* C30: password change round trip. After a password update to N is answered
\* with success, the stored hash of that user accepts N at login and, when the
\* old password differs from N, rejects the old password; an update that is
\* rejected leaves every stored hash as it was.
C30_PasswordRoundTrip ==
    [][ last'.op = "CHANGE_PASSWORD"
        => IF last'.status = 200
           THEN /\ last'.actor \in DOMAIN users'
                /\ users'[last'.actor].passwordHash = bcryptHash(last'.password)
                /\ last'.currentPassword # last'.password
                   => users'[last'.actor].passwordHash # bcryptHash(last'.currentPassword)
           ELSE users' = users
      ]_vars

====
